---------------------------- MODULE Spec2Model ----------------------------
(***************************************************************************)
(* Model of the OCR upload service (src/app.py): the POST /process handler *)
(* with its staging directory, extraction dispatch, PDF page loop, output  *)
(* formatter and cleanup, run by a threaded server (app.run(threaded=True))*)
(* so that several requests may be in flight at once.                      *)
(*                                                                         *)
(* Text is a sequence of one-character strings.  The results of the        *)
(* external readers (pdfplumber, pdf2image, tesseract, python-docx) are    *)
(* carried by the uploaded content: a page says what its text layer is,    *)
(* whether rasterizing it fails and what OCR returns for it.               *)
(***************************************************************************)
EXTENDS Integers, Sequences, FiniteSets, TLC

(***************************************************************************)
(* Bounds of the model.                                                    *)
(***************************************************************************)
NumRequests == 2
MaxClock == 1
MaxTextLen == 4
MaxPages == 2

(***************************************************************************)
(* Program constants.                                                      *)
(***************************************************************************)
Threshold == 20
PreviewLen == 1500

Requests == 1..NumRequests

(***************************************************************************)
(* Strings.                                                                *)
(***************************************************************************)
NL == "\n"
Whitespace == {" ", NL, "\t", "\r"}

RECURSIVE Rep(_, _)
Rep(c, n) == IF n = 0 THEN <<>> ELSE <<c>> \o Rep(c, n - 1)

Take(s, n) == SubSeq(s, 1, IF n < Len(s) THEN n ELSE Len(s))

Drop(s, n) == SubSeq(s, n + 1, Len(s))

RECURSIVE LStripSet(_, _)
LStripSet(s, cs) ==
    IF s # <<>> /\ Head(s) \in cs THEN LStripSet(Tail(s), cs) ELSE s

RECURSIVE RStripSet(_, _)
RStripSet(s, cs) ==
    IF s # <<>> /\ s[Len(s)] \in cs THEN RStripSet(SubSeq(s, 1, Len(s) - 1), cs) ELSE s

StripSet(s, cs) == RStripSet(LStripSet(s, cs), cs)

\* str.strip()
Strip(s) == StripSet(s, Whitespace)

\* str.split(sep): the pieces between the occurrences of sep, empty ones kept
RECURSIVE SplitOn(_, _)
SplitOn(s, sep) ==
    IF \A i \in 1..Len(s) : s[i] # sep
    THEN <<s>>
    ELSE LET k == CHOOSE i \in 1..Len(s) :
                      s[i] = sep /\ \A j \in 1..(i - 1) : s[j] # sep
         IN  <<SubSeq(s, 1, k - 1)>> \o SplitOn(Drop(s, k), sep)

\* str.split(): the runs of non-whitespace characters
RECURSIVE SplitWs(_)
SplitWs(s) ==
    LET t == LStripSet(s, Whitespace)
    IN  IF t = <<>>
        THEN <<>>
        ELSE IF \A i \in 1..Len(t) : t[i] \notin Whitespace
             THEN <<t>>
             ELSE LET k == CHOOSE i \in 1..Len(t) :
                               t[i] \in Whitespace /\ \A j \in 1..(i - 1) : t[j] \notin Whitespace
                  IN  <<SubSeq(t, 1, k - 1)>> \o SplitWs(Drop(t, k))

\* sep.join(parts)
RECURSIVE Join(_, _)
Join(parts, sep) ==
    IF parts = <<>> THEN <<>>
    ELSE IF Len(parts) = 1 THEN parts[1]
    ELSE parts[1] \o sep \o Join(Tail(parts), sep)

RECURSIVE Filter(_, _)
Filter(s, keep) ==
    IF s = <<>> THEN <<>>
    ELSE (IF Head(s) \in keep THEN <<Head(s)>> ELSE <<>>) \o Filter(Tail(s), keep)

RECURSIVE ReplaceChar(_, _, _)
ReplaceChar(s, old, new) ==
    IF s = <<>> THEN <<>>
    ELSE <<IF Head(s) = old THEN new ELSE Head(s)>> \o ReplaceChar(Tail(s), old, new)

UpperLetters ==
    <<"A", "B", "C", "D", "E", "F", "G", "H", "I", "J", "K", "L", "M",
      "N", "O", "P", "Q", "R", "S", "T", "U", "V", "W", "X", "Y", "Z">>
LowerLetters ==
    <<"a", "b", "c", "d", "e", "f", "g", "h", "i", "j", "k", "l", "m",
      "n", "o", "p", "q", "r", "s", "t", "u", "v", "w", "x", "y", "z">>
Digits == {"0", "1", "2", "3", "4", "5", "6", "7", "8", "9"}

LowerChar(c) ==
    IF \E i \in 1..26 : UpperLetters[i] = c
    THEN LowerLetters[CHOOSE i \in 1..26 : UpperLetters[i] = c]
    ELSE c

\* str.lower()
Lower(s) == [i \in 1..Len(s) |-> LowerChar(s[i])]

\* A character outside ASCII (one with no ASCII decomposition, such as a CJK one)
NonAscii == "<cjk>"

\* The characters werkzeug's secure_filename keeps: [A-Za-z0-9_.-]
FilenameChars ==
    {UpperLetters[i] : i \in 1..26} \cup {LowerLetters[i] : i \in 1..26}
        \cup Digits \cup {"_", ".", "-"}

\* werkzeug.utils.secure_filename (POSIX): drop the non-ASCII characters, turn
\* path separators into spaces, join the whitespace-separated pieces with "_",
\* drop every character outside [A-Za-z0-9_.-], strip "." and "_" at both ends.
secure_filename(name) ==
    LET ascii  == Filter(name, {name[i] : i \in 1..Len(name)} \ {NonAscii})
        nosep  == ReplaceChar(ascii, "/", " ")
        joined == Join(SplitWs(nosep), <<"_">>)
        kept   == Filter(joined, FilenameChars)
    IN  StripSet(kept, {".", "_"})

\* filename.rsplit('.', 1)
HasDot(s) == \E i \in 1..Len(s) : s[i] = "."
LastDot(s) == CHOOSE i \in 1..Len(s) : s[i] = "." /\ \A j \in (i + 1)..Len(s) : s[j] # "."
RsplitBase(s) == SubSeq(s, 1, LastDot(s) - 1)
RsplitExt(s) == Drop(s, LastDot(s))

ALLOWED_EXTENSIONS ==
    { <<"p", "d", "f">>, <<"p", "n", "g">>, <<"j", "p", "g">>, <<"j", "p", "e", "g">>,
      <<"d", "o", "c", "x">>, <<"t", "x", "t">> }

allowed_file(filename) ==
    HasDot(filename) /\ Lower(RsplitExt(filename)) \in ALLOWED_EXTENSIONS

(***************************************************************************)
(* Uploaded content.  What each external reader makes of a file is part of *)
(* the file: a PDF is its pages, each with its text layer (page.extract_   *)
(* text(), None when has_text is FALSE), whether pdf2image can rasterize   *)
(* it and what tesseract returns for the raster; an image carries its OCR  *)
(* outcome; a Word document its paragraphs; a text file its characters.    *)
(***************************************************************************)
Page(has_text, content, raster_ok, ocr_ok, ocr) ==
    [has_text |-> has_text, content |-> content,
     raster_ok |-> raster_ok, ocr_ok |-> ocr_ok, ocr |-> ocr]

File(kind, pages, ocr_ok, ocr, paragraphs, text) ==
    [kind |-> kind, pages |-> pages, ocr_ok |-> ocr_ok, ocr |-> ocr,
     paragraphs |-> paragraphs, text |-> text]

PdfFile(pages) == File("pdf", pages, TRUE, <<>>, <<>>, <<>>)
ImageFile(ocr_ok, ocr) == File("image", <<>>, ocr_ok, ocr, <<>>, <<>>)
DocxFile(paragraphs) == File("docx", <<>>, TRUE, <<>>, paragraphs, <<>>)
TextFile(text) == File("text", <<>>, TRUE, <<>>, <<>>, text)
\* bytes that are not valid UTF-8
BinaryFile == File("binary", <<>>, TRUE, <<>>, <<>>, <<>>)

(***************************************************************************)
(* Results of a step that may raise.                                       *)
(***************************************************************************)
Ok(text) == [ok |-> TRUE, text |-> text, exc |-> ""]
Raise(exc) == [ok |-> FALSE, text |-> <<>>, exc |-> exc]

(***************************************************************************)
(* extract_ocr(preprocess_image(img), lang): tesseract's answer for the    *)
(* image, or its exception.                                                *)
(***************************************************************************)
extract_ocr(ocr_ok, ocr) == IF ocr_ok THEN Ok(ocr) ELSE Raise("TesseractError")

(***************************************************************************)
(* process_pdf, one page: the test of line 47.                             *)
(***************************************************************************)
\* the test with >= in place of >
UsesEmbeddedTextFromThreshold(p) ==
    p.has_text /\ p.content # <<>> /\ Len(Strip(p.content)) >= Threshold

UsesEmbeddedText(p) ==
    p.has_text /\ p.content # <<>> /\ Len(Strip(p.content)) > Threshold

\* convert_from_path(path, first_page=n, last_page=n): the images of page n of
\* the file now at the path (none when that file has fewer pages).
convert_from_path(dir, path, n) ==
    IF path \notin DOMAIN dir THEN [ok |-> FALSE, images |-> <<>>, exc |-> "PDFPageCountError"]
    ELSE IF dir[path].content.kind # "pdf"
         THEN [ok |-> FALSE, images |-> <<>>, exc |-> "PDFPageCountError"]
    ELSE IF n > Len(dir[path].content.pages)
         THEN [ok |-> TRUE, images |-> <<>>, exc |-> ""]
    ELSE IF ~dir[path].content.pages[n].raster_ok
         THEN [ok |-> FALSE, images |-> <<>>, exc |-> "PDFSyntaxError"]
    ELSE [ok |-> TRUE, images |-> <<dir[path].content.pages[n]>>, exc |-> ""]

\* a loop that passes over an image whose OCR raises
RECURSIVE OcrImagesSkippingFailures(_)
OcrImagesSkippingFailures(images) ==
    IF images = <<>> THEN Ok(<<>>)
    ELSE LET first == extract_ocr(Head(images).ocr_ok, Head(images).ocr)
             rest  == OcrImagesSkippingFailures(Tail(images))
         IN  IF first.ok THEN Ok(first.text \o <<NL>> \o rest.text) ELSE rest

\* lines 53-55: OCR of each image in turn, each appended with a newline
RECURSIVE OcrImages(_)
OcrImages(images) ==
    IF images = <<>> THEN Ok(<<>>)
    ELSE LET first == extract_ocr(Head(images).ocr_ok, Head(images).ocr)
         IN  IF ~first.ok THEN first
             ELSE LET rest == OcrImages(Tail(images))
                  IN  IF ~rest.ok THEN rest
                      ELSE Ok(first.text \o <<NL>> \o rest.text)

(***************************************************************************)
(* The extraction dispatch of lines 82-92.                                 *)
(***************************************************************************)
ExtPdf == <<"p", "d", "f">>
ExtImages == { <<"j", "p", "g">>, <<"j", "p", "e", "g">>, <<"p", "n", "g">> }
ExtDocx == <<"d", "o", "c", "x">>

Branch(ext) ==
    IF ext = ExtPdf THEN "pdf"
    ELSE IF ext \in ExtImages THEN "image"
    ELSE IF ext = ExtDocx THEN "docx"
    ELSE "text"

\* pdfplumber.open(path)
OpenPdf(dir, path) ==
    IF path \notin DOMAIN dir THEN Raise("FileNotFoundError")
    ELSE IF dir[path].content.kind # "pdf" THEN Raise("PDFSyntaxError")
    ELSE Ok(<<>>)

\* lines 85-86
ReadImage(dir, path) ==
    IF path \notin DOMAIN dir THEN Raise("FileNotFoundError")
    ELSE IF dir[path].content.kind # "image" THEN Raise("UnidentifiedImageError")
    ELSE extract_ocr(dir[path].content.ocr_ok, dir[path].content.ocr)

\* lines 88-89
ReadDocx(dir, path) ==
    IF path \notin DOMAIN dir THEN Raise("PackageNotFoundError")
    ELSE IF dir[path].content.kind # "docx" THEN Raise("PackageNotFoundError")
    ELSE Ok(Join(dir[path].content.paragraphs, <<NL>>))

\* lines 91-92
ReadText(dir, path) ==
    IF path \notin DOMAIN dir THEN Raise("FileNotFoundError")
    ELSE IF dir[path].content.kind # "text" THEN Raise("UnicodeDecodeError")
    ELSE Ok(dir[path].content.text)

ReadBranch(branch, dir, path) ==
    IF branch = "image" THEN ReadImage(dir, path)
    ELSE IF branch = "docx" THEN ReadDocx(dir, path)
    ELSE ReadText(dir, path)

(***************************************************************************)
(* The output formatter of lines 103-113.                                  *)
(***************************************************************************)
KnownFormats == {"txt", "md", "docx", "csv"}

Artifact(container, bom, text, paragraphs, header, rows) ==
    [container |-> container, bom |-> bom, text |-> text,
     paragraphs |-> paragraphs, header |-> header, rows |-> rows]

MdHeading == <<"#", " ", "O", "C", "R", " ", "R", "e", "s", "u", "l", "t", NL, NL>>

RECURSIVE NonBlank(_)
NonBlank(lines) ==
    IF lines = <<>> THEN <<>>
    ELSE (IF Strip(Head(lines)) # <<>> THEN <<Head(lines)>> ELSE <<>>)
             \o NonBlank(Tail(lines))

\* the split without the filter
CsvAllLines(text) == SplitOn(text, NL)

\* line 112
CsvLines(text) == NonBlank(SplitOn(text, NL))

Render(format, text) ==
    IF format = "txt" THEN Artifact("utf-8", FALSE, text, <<>>, <<>>, <<>>)
    ELSE IF format = "md" THEN Artifact("utf-8", FALSE, MdHeading \o text, <<>>, <<>>, <<>>)
    ELSE IF format = "docx" THEN Artifact("docx", FALSE, <<>>, <<text>>, <<>>, <<>>)
    ELSE Artifact("csv", TRUE, <<>>, <<>>, <<"Content">>, CsvLines(text))

\* a formatter that falls back to writing for every format
WritesAnyFormat(format) == TRUE

WritesArtifact(format) == format \in KnownFormats

\* lines 98-101
OutFilename(filename, timestamp, format) ==
    [base |-> RsplitBase(filename), timestamp |-> timestamp, ext |-> format]

(***************************************************************************)
(* Responses.                                                              *)
(***************************************************************************)
NoName == [base |-> <<>>, timestamp |-> -1, ext |-> ""]

Response(status, json, success, error, preview, filename) ==
    [status |-> status, json |-> json, success |-> success, error |-> error,
     preview |-> preview, download_url |-> [prefix |-> "/download/", name |-> filename],
     filename |-> filename]

NoResponse == Response(0, FALSE, FALSE, "", <<>>, NoName)
ErrorResponse(status, error) == Response(status, TRUE, FALSE, error, <<>>, NoName)
\* an exception that leaves the view function: the server's own 500 page
UncaughtResponse(exc) == Response(500, FALSE, FALSE, exc, <<>>, NoName)
SuccessResponse(text, out_filename) ==
    Response(200, TRUE, TRUE, "", Take(text, PreviewLen), out_filename)

NoTextError == "Could not detect any text. Ensure the image is clear."

(***************************************************************************)
(* State.  uploads and outputs are the two directories (file name ->       *)
(* content and the request that wrote it); now is the clock in seconds;    *)
(* the rest are the locals of each request's run of process().             *)
(***************************************************************************)
VARIABLES
    uploads,         \* app.config['UPLOAD_FOLDER']
    outputs,         \* app.config['OUTPUT_FOLDER']
    now,             \* datetime.now(), in whole seconds
    pc,              \* where each request is in process()
    request,         \* request.files / request.form
    filename,        \* secure_filename(file.filename)
    staged,          \* file.save(input_path) has returned
    branch,          \* the extractors the dispatch has called, in order
    pdf,             \* the pages of the PDF process_pdf has open
    page,            \* page.page_number of the page process_pdf is at
    pdf_text,        \* process_pdf's accumulator
    trace,           \* what process_pdf did, page by page
    extracted_text,  \* extracted_text
    e,               \* the exception caught at line 122
    response         \* the response returned

locals == <<pc, request, filename, staged, branch, pdf, page, pdf_text, trace,
            extracted_text, e, response>>
vars == <<uploads, outputs, now, locals>>

(***************************************************************************)
(* The uploads offered to the service.                                     *)
(***************************************************************************)
SeqsUpTo(S, n) == UNION {[1..k -> S] : k \in 0..n}

PdfName == <<"a", ".", "p", "d", "f">>
TxtName == <<"a", ".", "t", "x", "t">>
Names ==
    { PdfName, TxtName,
      <<"a", ".", "P", "D", "F">>,
      <<"a", ".", "p", "n", "g">>,
      <<"a", ".", "j", "p", "g">>,
      <<"a", ".", "J", "p", "e", "g">>,
      <<"a", ".", "d", "o", "c", "x">>,
      <<"a", ".", "e", "x", "e">>,
      <<"a", ".", "t", "a", "r", ".", "g", "z">>,
      <<"R", "E", "A", "D", "M", "E">>,
      <<"a", ".">>,
      <<NonAscii, ".", "p", "d", "f">>,
      <<".", ".", "/", "a", ".", "t", "x", "t">>,
      <<"m", "y", " ", "a", ".", "t", "x", "t">>,
      <<".", ".", ".">>,
      <<>> }

T20 == Rep("x", Threshold)
T21 == Rep("x", Threshold + 1)

\* Pages: text layers above, at and below the threshold, padded with
\* whitespace, empty and absent; rasterization and OCR that work or raise.
Pages ==
    { Page(TRUE, T21, TRUE, FALSE, <<>>),
      Page(TRUE, <<" ">> \o T21 \o <<NL>>, FALSE, FALSE, <<>>),
      Page(TRUE, T20, TRUE, TRUE, <<"o">>),
      Page(TRUE, <<" ">> \o T20 \o <<NL>>, TRUE, TRUE, <<"p", NL, "q">>),
      Page(TRUE, <<>>, TRUE, FALSE, <<>>),
      Page(FALSE, <<>>, TRUE, TRUE, <<"s">>),
      Page(FALSE, <<>>, TRUE, TRUE, <<" ">>),
      Page(FALSE, <<>>, FALSE, TRUE, <<"r">>) }

PdfFiles == {PdfFile(ps) : ps \in SeqsUpTo(Pages, MaxPages)}

ImageFiles == {ImageFile(TRUE, <<"o">>), ImageFile(TRUE, <<" ", NL>>), ImageFile(FALSE, <<>>)}

DocxFiles == {DocxFile(<<<<"A">>, <<>>, <<"B">>>>), DocxFile(<<<<>>>>), DocxFile(<<>>)}

TextChars == {"x", "y", " ", NL}
TextFiles == {TextFile(t) : t \in SeqsUpTo(TextChars, MaxTextLen)}

Formats == KnownFormats \cup {"xml"}

Upload(name, content) == [name |-> name, content |-> content]

Input(has_file, name, content, format) ==
    [has_file |-> has_file, name |-> name, content |-> content, format |-> format]

NoInput == Input(FALSE, <<>>, BinaryFile, "txt")

\* One request on its own: every name, and every content under a matching name.
UploadsOne ==
    {Upload(n, TextFile(<<"h", "i">>)) : n \in Names}
        \cup {Upload(PdfName, c) : c \in PdfFiles}
        \cup {Upload(<<"a", ".", "P", "D", "F">>, PdfFile(<<Page(TRUE, T21, TRUE, TRUE, <<>>)>>))}
        \cup {Upload(n, c) : n \in {<<"a", ".", "p", "n", "g">>, <<"a", ".", "j", "p", "g">>,
                                    <<"a", ".", "J", "p", "e", "g">>}, c \in ImageFiles}
        \cup {Upload(<<"a", ".", "d", "o", "c", "x">>, c) : c \in DocxFiles}
        \cup {Upload(TxtName, c) : c \in TextFiles}
        \cup {Upload(n, BinaryFile) : n \in {TxtName, <<"a", ".", "e", "x", "e">>}}

InputsOne ==
    {NoInput} \cup {Input(TRUE, u.name, u.content, f) : u \in UploadsOne, f \in Formats}

\* Requests in flight together: two uploads of the same name with different
\* content, a blank and an undecodable one of another name, and a PDF with a
\* digital and a scanned page.
UploadsShared ==
    { Upload(TxtName, TextFile(<<"x">>)),
      Upload(TxtName, TextFile(<<"y">>)),
      Upload(<<"b", ".", "t", "x", "t">>, TextFile(<<" ">>)),
      Upload(<<"b", ".", "t", "x", "t">>, BinaryFile),
      Upload(PdfName, PdfFile(<<Page(TRUE, T21, TRUE, TRUE, <<>>),
                                Page(FALSE, <<>>, TRUE, TRUE, <<"o">>)>>)) }

InputsShared ==
    {NoInput} \cup {Input(TRUE, u.name, u.content, "txt") : u \in UploadsShared}

(***************************************************************************)
(* Init: the state after the module is loaded (lines 12-21): both          *)
(* directories exist and are empty, no request has arrived.                *)
(***************************************************************************)
Init ==
    /\ uploads = <<>>
    /\ outputs = <<>>
    /\ now = 0
    /\ pc = [r \in Requests |-> "idle"]
    /\ request = [r \in Requests |-> NoInput]
    /\ filename = [r \in Requests |-> <<>>]
    /\ staged = [r \in Requests |-> FALSE]
    /\ branch = [r \in Requests |-> <<>>]
    /\ pdf = [r \in Requests |-> <<>>]
    /\ page = [r \in Requests |-> 0]
    /\ pdf_text = [r \in Requests |-> <<>>]
    /\ trace = [r \in Requests |-> <<>>]
    /\ extracted_text = [r \in Requests |-> <<>>]
    /\ e = [r \in Requests |-> ""]
    /\ response = [r \in Requests |-> NoResponse]

(***************************************************************************)
(* process(), lines 64-76: the two 400 answers, then the upload is staged  *)
(* under its sanitized name.  file.save is outside the try block: when the *)
(* sanitized name is empty the path is the directory itself and the        *)
(* exception of open() leaves the view function.                           *)
(***************************************************************************)
Put(dir, path, content, r) == (path :> [content |-> content, owner |-> r]) @@ dir

Remove(dir, path) == [n \in DOMAIN dir \ {path} |-> dir[n]]

Entry(in) ==
    IF ~in.has_file
    THEN [saves |-> FALSE, sanitized |-> FALSE, response |-> ErrorResponse(400, "No file part")]
    ELSE IF in.name = <<>>
    THEN [saves |-> FALSE, sanitized |-> FALSE, response |-> ErrorResponse(400, "No selected file")]
    ELSE IF secure_filename(in.name) = <<>>
    THEN [saves |-> FALSE, sanitized |-> TRUE, response |-> UncaughtResponse("IsADirectoryError")]
    ELSE [saves |-> TRUE, sanitized |-> TRUE, response |-> NoResponse]

Start(r, inputs) ==
    /\ pc[r] = "idle"
    /\ \E in \in inputs :
         LET entry == Entry(in)
         IN  /\ request' = [request EXCEPT ![r] = in]
             /\ filename' = [filename EXCEPT
                               ![r] = IF entry.sanitized THEN secure_filename(in.name) ELSE <<>>]
             /\ staged' = [staged EXCEPT ![r] = entry.saves]
             /\ uploads' = IF entry.saves
                           THEN Put(uploads, secure_filename(in.name), in.content, r)
                           ELSE uploads
             /\ response' = [response EXCEPT ![r] = entry.response]
             /\ pc' = [pc EXCEPT ![r] = IF entry.saves THEN "extract" ELSE "done"]
    /\ UNCHANGED <<outputs, now, branch, pdf, page, pdf_text, trace, extracted_text, e>>

(***************************************************************************)
(* The ends of the try block.  Caught: lines 122-124.  Extracted: the      *)
(* extraction returned, lines 94-95.                                       *)
(***************************************************************************)
CatchAll(exc) == ErrorResponse(500, exc)

\* the test without strip()
IsEmpty(text) == text = <<>>

IsBlank(text) == Strip(text) = <<>>

\* an except clause that returns with the cleanup left to the success path
CaughtWithoutCleanup(r, exc) ==
    /\ e' = [e EXCEPT ![r] = exc]
    /\ response' = [response EXCEPT ![r] = CatchAll(exc)]
    /\ pc' = [pc EXCEPT ![r] = "done"]
    /\ UNCHANGED extracted_text

Caught(r, exc) ==
    /\ e' = [e EXCEPT ![r] = exc]
    /\ response' = [response EXCEPT ![r] = CatchAll(exc)]
    /\ pc' = [pc EXCEPT ![r] = "finally"]
    /\ UNCHANGED extracted_text

Extracted(r, text) ==
    /\ extracted_text' = [extracted_text EXCEPT ![r] = text]
    /\ IF IsBlank(text)
       THEN /\ response' = [response EXCEPT ![r] = ErrorResponse(400, NoTextError)]
            /\ pc' = [pc EXCEPT ![r] = "finally"]
       ELSE /\ pc' = [pc EXCEPT ![r] = "save_output"]
            /\ UNCHANGED response
    /\ UNCHANGED e

(***************************************************************************)
(* Lines 79-92: the extension, the dispatch, and the read of the staged    *)
(* file (for a PDF: pdfplumber.open, the pages are then read one by one).  *)
(***************************************************************************)
Extract(r) ==
    /\ pc[r] = "extract"
    /\ IF ~HasDot(filename[r])
       THEN /\ Caught(r, "IndexError")
            /\ UNCHANGED <<branch, pdf, page>>
       ELSE LET b == Branch(Lower(RsplitExt(filename[r])))
            IN  /\ branch' = [branch EXCEPT ![r] = Append(@, b)]
                /\ IF b = "pdf"
                   THEN LET opened == OpenPdf(uploads, filename[r])
                        IN  IF opened.ok
                            THEN /\ pdf' = [pdf EXCEPT ![r] = uploads[filename[r]].content.pages]
                                 /\ page' = [page EXCEPT ![r] = 1]
                                 /\ pc' = [pc EXCEPT ![r] = "pdf_page"]
                                 /\ UNCHANGED <<extracted_text, e, response>>
                            ELSE /\ Caught(r, opened.exc)
                                 /\ UNCHANGED <<pdf, page>>
                   ELSE LET read == ReadBranch(b, uploads, filename[r])
                        IN  /\ IF read.ok THEN Extracted(r, read.text) ELSE Caught(r, read.exc)
                            /\ UNCHANGED <<pdf, page>>
    /\ UNCHANGED <<uploads, outputs, now, request, filename, staged, pdf_text, trace>>

(***************************************************************************)
(* process_pdf, lines 45-55: one turn of the loop over pdf.pages.          *)
(***************************************************************************)
Event(n, op) == [page |-> n, op |-> op]

PdfPage(r) ==
    /\ pc[r] = "pdf_page"
    /\ page[r] <= Len(pdf[r])
    /\ LET n == page[r]
           p == pdf[r][n]
       IN  IF UsesEmbeddedText(p)
           THEN /\ pdf_text' = [pdf_text EXCEPT ![r] = @ \o p.content \o <<NL>>]
                /\ trace' = [trace EXCEPT ![r] = Append(@, Event(n, "embedded"))]
                /\ page' = [page EXCEPT ![r] = n + 1]
                /\ UNCHANGED <<pc, response, e, extracted_text>>
           ELSE LET conv == convert_from_path(uploads, filename[r], n)
                    ocr  == OcrImages(conv.images)
                IN  IF ~conv.ok
                    THEN /\ trace' = [trace EXCEPT ![r] = Append(@, Event(n, "rasterize"))]
                         /\ Caught(r, conv.exc)
                         /\ UNCHANGED <<pdf_text, page>>
                    ELSE /\ trace' = [trace EXCEPT
                                        ![r] = @ \o <<Event(n, "rasterize")>>
                                                 \o [i \in 1..Len(conv.images) |-> Event(n, "ocr")]]
                         /\ IF ocr.ok
                            THEN /\ pdf_text' = [pdf_text EXCEPT ![r] = @ \o ocr.text]
                                 /\ page' = [page EXCEPT ![r] = n + 1]
                                 /\ UNCHANGED <<pc, response, e, extracted_text>>
                            ELSE /\ Caught(r, ocr.exc)
                                 /\ UNCHANGED <<pdf_text, page>>
    /\ UNCHANGED <<uploads, outputs, now, request, filename, staged, branch, pdf>>

\* line 56, then lines 94-95
PdfReturn(r) ==
    /\ pc[r] = "pdf_page"
    /\ page[r] > Len(pdf[r])
    /\ Extracted(r, pdf_text[r])
    /\ UNCHANGED <<uploads, outputs, now, request, filename, staged, branch, pdf, page,
                   pdf_text, trace>>

(***************************************************************************)
(* Lines 97-120: the artifact is written under <base>_<timestamp>.<format> *)
(* (open(.., 'w') replaces a file of that name) and the answer is built.   *)
(***************************************************************************)
Write(dir, name, data, r) == (name :> [data |-> data, writer |-> r]) @@ dir

SaveOutput(r) ==
    /\ pc[r] = "save_output"
    /\ LET out == OutFilename(filename[r], now, request[r].format)
       IN  /\ outputs' = IF WritesArtifact(request[r].format)
                         THEN Write(outputs, out,
                                    Render(request[r].format, extracted_text[r]), r)
                         ELSE outputs
           /\ response' = [response EXCEPT ![r] = SuccessResponse(extracted_text[r], out)]
    /\ pc' = [pc EXCEPT ![r] = "finally"]
    /\ UNCHANGED <<uploads, now, request, filename, staged, branch, pdf, page, pdf_text,
                   trace, extracted_text, e>>

(***************************************************************************)
(* Lines 125-127: the finally block, os.path.exists and then os.remove.    *)
(* When another request removes the file between the two, os.remove raises *)
(* out of the finally block and replaces the answer.                       *)
(***************************************************************************)
FinallyExists(r) ==
    /\ pc[r] = "finally"
    /\ pc' = [pc EXCEPT ![r] = IF filename[r] \in DOMAIN uploads THEN "remove" ELSE "done"]
    /\ UNCHANGED <<uploads, outputs, now, request, filename, staged, branch, pdf, page,
                   pdf_text, trace, extracted_text, e, response>>

FinallyRemove(r) ==
    /\ pc[r] = "remove"
    /\ IF filename[r] \in DOMAIN uploads
       THEN /\ uploads' = Remove(uploads, filename[r])
            /\ UNCHANGED response
       ELSE /\ response' = [response EXCEPT ![r] = UncaughtResponse("FileNotFoundError")]
            /\ UNCHANGED uploads
    /\ pc' = [pc EXCEPT ![r] = "done"]
    /\ UNCHANGED <<outputs, now, request, filename, staged, branch, pdf, page,
                   pdf_text, trace, extracted_text, e>>

\* The clock that line 99 reads moves on.
Tick ==
    /\ now < MaxClock
    /\ now' = now + 1
    /\ UNCHANGED <<uploads, outputs, locals>>

(***************************************************************************)
(* Spec: the threaded server, requests in flight together.                 *)
(* SpecOne: one request at a time, over every upload of UploadsOne.        *)
(***************************************************************************)
Step(r) ==
    \/ Extract(r)
    \/ PdfPage(r)
    \/ PdfReturn(r)
    \/ SaveOutput(r)
    \/ FinallyExists(r)
    \/ FinallyRemove(r)

Next ==
    \/ \E r \in Requests : Start(r, InputsShared)
    \/ \E r \in Requests : Step(r)
    \/ Tick

Spec == Init /\ [][Next]_vars

Alone(r) == \A q \in Requests \ {r} : pc[q] = "idle"

NextOne ==
    \/ \E r \in Requests : Alone(r) /\ Start(r, InputsOne)
    \/ \E r \in Requests : Step(r)
    \/ Tick

SpecOne == Init /\ [][NextOne]_vars

(***************************************************************************)
(* Properties.                                                             *)
(***************************************************************************)
Returned(r) == pc[r] = "done"

\* past the try block: the answer of process() is decided
Answered(r) == pc[r] \in {"finally", "remove", "done"}

OnlyWhitespace(text) == \A i \in 1..Len(text) : text[i] \in Whitespace

\* C1: once a request that staged its upload has returned its response (200,
\* 400 for blank text or 500 for an exception), the file it staged is no longer
\* in the staging directory, and at the moment it returns nothing is left at
\* its staging path.
C1_StagedFileRemoved ==
    /\ [](\A r \in Requests :
            Returned(r) /\ staged[r] =>
                ~(filename[r] \in DOMAIN uploads /\ uploads[filename[r]].owner = r))
    /\ [][\A r \in Requests :
            ~Returned(r) /\ Returned(r)' /\ staged[r] => filename[r] \notin DOMAIN uploads']_vars

C1_Witness ==
    \E r, q \in Requests :
        /\ Returned(r) /\ staged[r] /\ response[r].status = 200
        /\ Returned(q) /\ staged[q] /\ response[q].status = 500 /\ response[q].json
        /\ uploads = <<>>

\* C2: while a request is between staging its upload and the end of its
\* extraction, the file at its staging path is the one it staged: no other
\* request has overwritten or deleted it.
C2_NoCollision ==
    \A r \in Requests :
        staged[r] /\ pc[r] \in {"extract", "pdf_page"} =>
            filename[r] \in DOMAIN uploads /\ uploads[filename[r]].owner = r

\* C3: the artifact of every successful request stays in the output directory
\* with the content that request wrote: no later request writes to its path.
C3_ArtifactNeverOverwritten ==
    \A r \in Requests :
        Answered(r) /\ response[r].success /\ WritesArtifact(request[r].format) =>
            /\ response[r].filename \in DOMAIN outputs
            /\ outputs[response[r].filename].data
                   = Render(request[r].format, extracted_text[r])

\* C4: every request ends with a JSON answer: 200 success, 400 with an error
\* (no file part, empty filename, blank text) or 500 with the text of the
\* exception caught; no exception leaves the handler.
C4_EveryFailureIsJson ==
    \A r \in Requests :
        Returned(r) =>
            /\ response[r].json
            /\ \/ response[r].status = 200 /\ response[r].success
               \/ /\ response[r].status = 400
                  /\ response[r].error \in {"No file part", "No selected file", NoTextError}
               \/ response[r].status = 500 /\ response[r].error = e[r] /\ e[r] # ""

\* C5: every staged upload is dispatched exactly once, by the lowercase
\* extension of its filename: pdf, image, docx, and the text reader for every
\* other filename, whose text is then the file's content verbatim.
ClaimedBranch(name) ==
    LET ext == IF HasDot(name) THEN Lower(RsplitExt(name)) ELSE <<>>
    IN  IF ext = <<"p", "d", "f">> THEN "pdf"
        ELSE IF ext \in {<<"j", "p", "g">>, <<"j", "p", "e", "g">>, <<"p", "n", "g">>} THEN "image"
        ELSE IF ext = <<"d", "o", "c", "x">> THEN "docx"
        ELSE "text"

C5_OneDispatchByExtension ==
    \A r \in Requests :
        staged[r] /\ pc[r] # "extract" =>
            /\ branch[r] = <<ClaimedBranch(filename[r])>>
            /\ (ClaimedBranch(filename[r]) = "text" /\ request[r].content.kind = "text"
                    => extracted_text[r] = request[r].content.text)

\* the try block got as far as the test of line 94 with this text
ExtractionReturned(r) == staged[r] /\ Answered(r) /\ e[r] = ""

\* C6: a request succeeds only if its extracted text has a character that is
\* not whitespace; when the extraction returns text that is empty or all
\* whitespace the answer is 400 "could not detect any text" and no artifact
\* is written.
C6_BlankTextIsRejected ==
    \A r \in Requests :
        /\ response[r].success => ~OnlyWhitespace(extracted_text[r])
        /\ ExtractionReturned(r) /\ OnlyWhitespace(extracted_text[r]) =>
               /\ response[r] = ErrorResponse(400, NoTextError)
               /\ outputs = <<>>

C6_Witness ==
    \E r \in Requests :
        /\ Returned(r) /\ ExtractionReturned(r)
        /\ extracted_text[r] # <<>> /\ OnlyWhitespace(extracted_text[r])
        /\ response[r].status = 400

\* C7: for text that is not blank, a format among txt, md, docx, csv leaves
\* exactly one artifact, at the filename the 200 answer reports in filename
\* and download_url; any other format leaves no artifact at all and the
\* answer is still the 200 success naming the file.
C7_OneArtifactForKnownFormats ==
    \A r \in Requests :
        ExtractionReturned(r) /\ ~OnlyWhitespace(extracted_text[r]) =>
            /\ response[r].status = 200 /\ response[r].success
            /\ response[r].filename.ext = request[r].format
            /\ response[r].download_url = [prefix |-> "/download/", name |-> response[r].filename]
            /\ IF request[r].format \in {"txt", "md", "docx", "csv"}
               THEN DOMAIN outputs = {response[r].filename}
               ELSE outputs = <<>>

C7_Witness ==
    \E r \in Requests :
        /\ Returned(r) /\ response[r].success
        /\ request[r].format = "xml"
        /\ outputs = <<>>

\* The lines of a text, as the claim words them: the pieces between
\* consecutive newlines.
NewlineAt(text, k) ==
    CHOOSE i \in 1..Len(text) :
        text[i] = NL /\ Cardinality({j \in 1..(i - 1) : text[j] = NL}) = k - 1
NumLines(text) == Cardinality({i \in 1..Len(text) : text[i] = NL}) + 1
LineStart(text, j) == IF j = 1 THEN 1 ELSE NewlineAt(text, j - 1) + 1
LineEnd(text, j) == IF j = NumLines(text) THEN Len(text) ELSE NewlineAt(text, j) - 1
Line(text, j) == SubSeq(text, LineStart(text, j), LineEnd(text, j))
NonBlankLines(text) == {j \in 1..NumLines(text) : ~OnlyWhitespace(Line(text, j))}
\* the k-th non-blank line
NthNonBlank(text, k) ==
    CHOOSE j \in NonBlankLines(text) :
        Cardinality({i \in NonBlankLines(text) : i < j}) = k - 1

\* C8: a csv artifact is the header row Content and then one row for each
\* non-blank line of the extracted text, in the order of the lines; no row
\* stands for a blank line.
C8_CsvRowsAreNonBlankLines ==
    \A name \in DOMAIN outputs :
        name.ext = "csv" =>
            LET text == extracted_text[outputs[name].writer]
                rows == outputs[name].data.rows
            IN  /\ outputs[name].data.header = <<"Content">>
                /\ Len(rows) = Cardinality(NonBlankLines(text))
                /\ \A k \in 1..Len(rows) : rows[k] = Line(text, NthNonBlank(text, k))
                /\ \A k \in 1..Len(rows) : ~OnlyWhitespace(rows[k])

\* "line1\n\nline2": a blank line between two lines, two rows
C8_Witness ==
    \E name \in DOMAIN outputs :
        /\ name.ext = "csv"
        /\ extracted_text[outputs[name].writer] = <<"x", NL, NL, "y">>
        /\ outputs[name].data.rows = << <<"x">>, <<"y">> >>

\* The number of characters of a text after trimming: from its first to its
\* last character that is not whitespace.
TrimmedLen(text) ==
    LET solid == {i \in 1..Len(text) : text[i] \notin Whitespace}
    IN  IF solid = {} THEN 0
        ELSE (CHOOSE i \in solid : \A j \in solid : j <= i)
                 - (CHOOSE i \in solid : \A j \in solid : i <= j) + 1

\* a page whose embedded text has more than 20 characters after trimming
Digital(p) == p.has_text /\ TrimmedLen(p.content) > 20

\* what the first k pages contribute, and what is done for them
RECURSIVE ClaimedText(_, _)
ClaimedText(pages, k) ==
    IF k = 0 THEN <<>>
    ELSE ClaimedText(pages, k - 1)
             \o (IF Digital(pages[k]) THEN pages[k].content ELSE pages[k].ocr) \o <<NL>>

RECURSIVE ClaimedTrace(_, _)
ClaimedTrace(pages, k) ==
    IF k = 0 THEN <<>>
    ELSE ClaimedTrace(pages, k - 1)
             \o (IF Digital(pages[k])
                 THEN <<[page |-> k, op |-> "embedded"]>>
                 ELSE <<[page |-> k, op |-> "rasterize"], [page |-> k, op |-> "ocr"]>>)

\* process_pdf is running or has run on the request's PDF
InPdf(r) == branch[r] = <<"pdf">> /\ page[r] >= 1

\* C9: the pages are visited in order; a page with more than 20 trimmed
\* characters of embedded text is never rasterized or OCRed and contributes
\* its text and a newline; every other page (20 or fewer, none, no text
\* layer) is rasterized, it alone, then OCRed, and contributes the OCR output
\* and a newline; the result is these contributions in page order.
C9_PageResolver ==
    \A r \in Requests :
        InPdf(r) =>
            LET done == page[r] - 1
                rest == SubSeq(trace[r], Len(ClaimedTrace(pdf[r], done)) + 1, Len(trace[r]))
            IN  /\ done <= Len(pdf[r])
                /\ pdf_text[r] = ClaimedText(pdf[r], done)
                /\ SubSeq(trace[r], 1, Len(ClaimedTrace(pdf[r], done))) = ClaimedTrace(pdf[r], done)
                /\ IF e[r] = ""
                   THEN rest = <<>>
                   ELSE /\ done < Len(pdf[r])
                        /\ ~Digital(pdf[r][done + 1])
                        /\ rest # <<>>
                        /\ rest[1] = [page |-> done + 1, op |-> "rasterize"]
                        /\ \A i \in 2..Len(rest) : rest[i] = [page |-> done + 1, op |-> "ocr"]
                /\ (Answered(r) /\ e[r] = "" =>
                        extracted_text[r] = ClaimedText(pdf[r], Len(pdf[r])))

\* a digital page and a page of exactly 20 trimmed characters in one PDF
C9_Witness ==
    \E r \in Requests :
        /\ InPdf(r) /\ Returned(r) /\ response[r].success
        /\ Len(pdf[r]) = 2
        /\ \E i, j \in 1..2 :
              /\ TrimmedLen(pdf[r][i].content) = 21
              /\ pdf[r][j].has_text /\ TrimmedLen(pdf[r][j].content) = 20
              /\ Len(pdf[r][j].content) > 20

\* the first page whose rasterization or OCR raises, 0 when none does
FailsAt(pages, k) == ~Digital(pages[k]) /\ (~pages[k].raster_ok \/ ~pages[k].ocr_ok)
FirstFailure(pages) ==
    IF \E k \in 1..Len(pages) : FailsAt(pages, k)
    THEN CHOOSE k \in 1..Len(pages) : FailsAt(pages, k) /\ \A j \in 1..(k - 1) : ~FailsAt(pages, j)
    ELSE 0

\* C10: when rasterization or OCR raises on page k of a PDF, the request ends
\* with the 500 JSON error of that exception, the text of the pages before k
\* is in no answer and no file, no artifact is written, no page after k is
\* processed and nothing is tried twice.
C10_NoPartialResults ==
    \A r \in Requests :
        InPdf(r) /\ FirstFailure(pdf[r]) # 0 =>
            LET k == FirstFailure(pdf[r])
            IN  /\ \A i \in 1..Len(trace[r]) : trace[r][i].page <= k
                /\ \A i, j \in 1..Len(trace[r]) : trace[r][i] = trace[r][j] => i = j
                /\ page[r] <= k
                /\ outputs = <<>>
                /\ extracted_text[r] = <<>>
                /\ Answered(r) =>
                       /\ response[r] = ErrorResponse(500, IF pdf[r][k].raster_ok
                                                           THEN "TesseractError"
                                                           ELSE "PDFSyntaxError")
                       /\ response[r].preview = <<>>
                       /\ page[r] = k

\* the second page fails after the first has contributed text
C10_Witness ==
    \E r \in Requests :
        /\ InPdf(r) /\ Returned(r)
        /\ FirstFailure(pdf[r]) = 2
        /\ pdf_text[r] # <<>>
        /\ response[r].status = 500

=============================================================================
